---- MODULE Spec2Model ----
(***************************************************************************)
(* KubeDynamicScaler: the ReplicasOverride reconciler                      *)
(* (internal/controller/replicasoverride_controller.go), the helpers of    *)
(* pkg/utils/scaling.go and the configuration manager, as a state machine  *)
(* over a small cluster: Deployments, one HPA, ReplicasOverride objects,   *)
(* a GlobalReplicasIgnore object, the loaded GlobalConfig and the          *)
(* controller's work queue.                                                *)
(*                                                                         *)
(* Each handler (Reconcile, the Deployment and HPA map functions) is one   *)
(* atomic action.  The cluster API server, the HPA controller's own        *)
(* scaling and the users are the environment: users create, edit and       *)
(* delete policy objects and HPAs; watch events for Deployments and HPAs   *)
(* may be delivered at any time (status updates, informer resync).         *)
(***************************************************************************)
EXTENDS Integers, Sequences, FiniteSets, TLC

(***************************************************************************)
(* Bounds of the model                                                     *)
(***************************************************************************)
\* largest integer the decimal parser of the model recognises
MaxInt == 60
\* number of user edits (policy objects, HPA, configuration) in a behaviour
MaxEdits == 3
\* number of consecutive conflict responses the API server gives for one object
MaxConflicts == 5

(***************************************************************************)
(* The cluster's fixed part                                                *)
(***************************************************************************)
Deployments == {"d1", "d2"}
\* order in which a List call returns the Deployments
DeploymentItems == <<"d1", "d2">>
DepNamespace(d) == IF d = "d1" THEN "a" ELSE "b"
DepName(d) == IF d = "d1" THEN "web" ELSE "api"
DepLabels(d) == IF d = "d1" THEN [app |-> "x", tier |-> "front"] ELSE [app |-> "x"]
\* spec.replicas a Deployment is created with
InitialReplicas(d) == IF d = "d1" THEN {4} ELSE {3}

HPAs == {"h1"}
HpaNamespace(h) == "a"
\* spec.scaleTargetRef of the HPA: kind Deployment, apiVersion apps/v1, this name
HpaTargetName(h) == "web"
HpaNames == {"web", "web-hpa"}
HpaInitialMin == 2
HpaInitialMax == 10

\* metadata.annotations a Deployment or an HPA carries when it is created: the
\* part of the object that belongs to its owner
UserAnnotations == ("deployment.kubernetes.io/revision" :> "1")

Overrides == {"o1", "o2"}
OvNamespace(o) == "a"
OvName(o) == IF o = "o1" THEN "web" ELSE "ov2"

NoRef == [Name |-> "", Namespace |-> ""]
NoSelector == <<>>

\* an optional *int32 field: <<>> when nil, <<n>> when set
Nil == <<>>

ByRef(name, ns, percentage) ==
    [DeploymentRef |-> [Name |-> name, Namespace |-> ns], Selector |-> NoSelector,
     HPARef |-> NoRef, OverrideType |-> "override", ReplicasPercentage |-> percentage,
     MinReplicas |-> Nil, MaxReplicas |-> Nil]
BySelector(sel, percentage) ==
    [DeploymentRef |-> NoRef, Selector |-> sel, HPARef |-> NoRef,
     OverrideType |-> "override", ReplicasPercentage |-> percentage,
     MinReplicas |-> Nil, MaxReplicas |-> Nil]
ByHPARef(name, ns, percentage) ==
    [DeploymentRef |-> NoRef, Selector |-> NoSelector,
     HPARef |-> [Name |-> name, Namespace |-> ns],
     OverrideType |-> "override", ReplicasPercentage |-> percentage,
     MinReplicas |-> Nil, MaxReplicas |-> Nil]

\* ReplicasOverrideSpec values the users choose from; "ghost" names no Deployment
OverrideSpecs(o) ==
    IF o = "o1"
    THEN { ByRef("web", "", 50), ByRef("web", "a", 150), ByRef("ghost", "", 50),
           ByRef("api", "b", 50), BySelector([app |-> "x"], 150) }
    ELSE { BySelector([tier |-> "front"], 50) }

\* GlobalReplicasIgnoreSpec values the users choose from
IgnoreSpecs ==
    { [IgnoreNamespaces |-> {"b"}, IgnoreResources |-> {}, IgnoreLabels |-> <<>>],
      [IgnoreNamespaces |-> {},
       IgnoreResources |-> {[Kind |-> "Deployment", Name |-> "web", Namespace |-> ""]},
       IgnoreLabels |-> <<>>],
      [IgnoreNamespaces |-> {}, IgnoreResources |-> {},
       IgnoreLabels |-> [tier |-> "front"]] }

\* config.DefaultConfig
DefaultConfig == [GlobalPercentage |-> 100, MinReplicas |-> 1, MaxReplicas |-> 100]
\* GlobalConfig values a configuration document may hold
Configs ==
    { DefaultConfig,
      [GlobalPercentage |-> 150, MinReplicas |-> 1, MaxReplicas |-> 10] }

(***************************************************************************)
(* Annotations (pkg/utils/scaling.go)                                      *)
(***************************************************************************)
OriginalReplicasAnnotation == "kubedynamicscaler.io/original-replicas"
OverrideControllerAnnotation == "kubedynamicscaler.io/override-controller"
LastUpdateAnnotation == "kubedynamicscaler.io/last-update"
ManagedAnnotation == "kubedynamicscaler.io/managed"
GlobalConfigManagedAnnotation == "kubedynamicscaler.io/global-config-managed"
ManagementModeAnnotation == "kubedynamicscaler.io/management-mode"
HPAManagedAnnotation == "kubedynamicscaler.io/hpa-managed"
OriginalMinReplicasAnnotation == "kubedynamicscaler.io/hpa-original-min"
OriginalMaxReplicasAnnotation == "kubedynamicscaler.io/hpa-original-max"
LastHPAUpdateAnnotation == "kubedynamicscaler.io/last-hpa-update"

DeploymentAnnotations ==
    { OriginalReplicasAnnotation, OverrideControllerAnnotation, LastUpdateAnnotation,
      ManagedAnnotation, GlobalConfigManagedAnnotation, ManagementModeAnnotation }
HPAAnnotations ==
    { OverrideControllerAnnotation, ManagedAnnotation, GlobalConfigManagedAnnotation,
      HPAManagedAnnotation, LastHPAUpdateAnnotation, OriginalMinReplicasAnnotation,
      OriginalMaxReplicasAnnotation }

\* a Go map[string]string: a function whose domain is the set of keys present
Has(m, k) == k \in DOMAIN m
\* m[k] of a Go map: the zero value "" for an absent key
Get(m, k) == IF k \in DOMAIN m THEN m[k] ELSE ""
Set(m, k, v) == [x \in (DOMAIN m) \cup {k} |-> IF x = k THEN v ELSE m[x]]
\* as Delete, but the whole map is dropped
DeleteAll(m, ks) == <<>>
Delete(m, ks) == [x \in (DOMAIN m) \ ks |-> m[x]]

\* time.Now().UTC().Format(time.RFC3339): the clock is not modelled
Timestamp == "now"

(***************************************************************************)
(* strconv.FormatInt(n, 10) and strconv.ParseInt(s, 10, 32)                *)
(***************************************************************************)
Digit == <<"0", "1", "2", "3", "4", "5", "6", "7", "8", "9">>

RECURSIVE FormatInt(_)
FormatInt(n) ==
    IF n < 10 THEN Digit[n + 1] ELSE FormatInt(n \div 10) \o Digit[(n % 10) + 1]

Decimals == [n \in 0..MaxInt |-> FormatInt(n)]

\* the callers drop ParseInt's error: an unparsable string yields 0
ParseInt(s) ==
    IF \E n \in 0..MaxInt : Decimals[n] = s
    THEN CHOOSE n \in 0..MaxInt : Decimals[n] = s
    ELSE 0

(***************************************************************************)
(* Eligibility and selection                                               *)
(***************************************************************************)
\* as ShouldIgnoreDeployment, but without the namespace rule
ShouldIgnoreDeploymentNoNamespace(d, ig) ==
    IF \E res \in ig.IgnoreResources :
               /\ res.Kind = "Deployment"
               /\ res.Name = DepName(d)
               /\ (res.Namespace = "" \/ res.Namespace = DepNamespace(d))
    THEN [ignored |-> TRUE, reason |-> "Deployment is in ignore list"]
    ELSE IF \E k \in DOMAIN ig.IgnoreLabels : Get(DepLabels(d), k) = ig.IgnoreLabels[k]
    THEN [ignored |-> TRUE, reason |-> "Deployment has ignored label"]
    ELSE [ignored |-> FALSE, reason |-> ""]

\* utils.ShouldIgnoreDeployment: the slices and the map of the rule are
\* searched for any hit, so they are sets here
ShouldIgnoreDeployment(d, ig) ==
    IF DepNamespace(d) \in ig.IgnoreNamespaces
    THEN [ignored |-> TRUE, reason |-> "Namespace is in ignore list"]
    ELSE IF \E res \in ig.IgnoreResources :
               /\ res.Kind = "Deployment"
               /\ res.Name = DepName(d)
               /\ (res.Namespace = "" \/ res.Namespace = DepNamespace(d))
    THEN [ignored |-> TRUE, reason |-> "Deployment is in ignore list"]
    ELSE IF \E k \in DOMAIN ig.IgnoreLabels : Get(DepLabels(d), k) = ig.IgnoreLabels[k]
    THEN [ignored |-> TRUE, reason |-> "Deployment has ignored label"]
    ELSE [ignored |-> FALSE, reason |-> ""]

\* the loop over the listed GlobalReplicasIgnore objects
IsIgnored(ig, d) == ig.exists /\ ShouldIgnoreDeployment(d, ig.spec).ignored

\* shouldProcessDeployment
shouldProcessDeployment(d, spec) ==
    IF spec.DeploymentRef # NoRef
    THEN /\ spec.DeploymentRef.Name = DepName(d)
         /\ (spec.DeploymentRef.Namespace = "" \/ spec.DeploymentRef.Namespace = DepNamespace(d))
    ELSE IF DOMAIN spec.Selector # {}
    THEN \A k \in DOMAIN spec.Selector : Get(DepLabels(d), k) = spec.Selector[k]
    ELSE FALSE

\* client.MatchingLabels of a List call: the label must be present
MatchingLabels(sel, d) ==
    \A k \in DOMAIN sel : Has(DepLabels(d), k) /\ DepLabels(d)[k] = sel[k]

\* r.Get of a Deployment by namespace and name
NotFound == "notfound"
GetDeployment(ns, name) ==
    IF \E d \in Deployments : DepNamespace(d) = ns /\ DepName(d) = name
    THEN CHOOSE d \in Deployments : DepNamespace(d) = ns /\ DepName(d) = name
    ELSE NotFound

\* the first HPA of the Deployment's namespace whose scaleTargetRef names it
existingHPA(hs, d) ==
    IF \E h \in HPAs : hs[h].exists /\ HpaNamespace(h) = DepNamespace(d)
                       /\ HpaTargetName(h) = DepName(d)
    THEN CHOOSE h \in HPAs : hs[h].exists /\ HpaNamespace(h) = DepNamespace(d)
                             /\ HpaTargetName(h) = DepName(d)
    ELSE NotFound

\* Reconcile's list of Deployments to process, or NotFound when the
\* deploymentRef names no Deployment
ListedDeployments(o, spec) ==
    IF spec.DeploymentRef # NoRef
    THEN LET ns == IF spec.DeploymentRef.Namespace = "" THEN OvNamespace(o)
                   ELSE spec.DeploymentRef.Namespace
             d == GetDeployment(ns, spec.DeploymentRef.Name)
         IN IF d = NotFound THEN NotFound ELSE <<d>>
    ELSE IF DOMAIN spec.Selector # {}
    THEN SelectSeq(DeploymentItems, LAMBDA d : MatchingLabels(spec.Selector, d))
    ELSE <<>>

(***************************************************************************)
(* Sizing                                                                  *)
(***************************************************************************)
\* the override passed to processDeployment and processHPA when it is nil
NilOverride == [DeploymentRef |-> NoRef, Selector |-> NoSelector, HPARef |-> NoRef,
                OverrideType |-> "", ReplicasPercentage |-> 0,
                MinReplicas |-> Nil, MaxReplicas |-> Nil]

Percentage(ov, cfg) ==
    IF ov # NilOverride THEN ov.ReplicasPercentage ELSE cfg.GlobalPercentage

\* int32(float64(original) * float64(percentage) / 100.0): the conversion
\* truncates; the quotient of two small integers is exact up to truncation
Scale(original, percentage) == (original * percentage) \div 100

\* processDeployment: target replicas with the limits of the global config
targetReplicas(original, percentage, cfg) ==
    LET t0 == Scale(original, percentage)
        t1 == IF t0 < cfg.MinReplicas THEN cfg.MinReplicas ELSE t0
    IN IF t1 > cfg.MaxReplicas THEN cfg.MaxReplicas ELSE t1

\* processHPA: target min and max
targetHPALimits(originalMin, originalMax, percentage, cfg) ==
    LET min0 == Scale(originalMin, percentage)
        max0 == Scale(originalMax, percentage)
        min1 == IF min0 < cfg.MinReplicas THEN cfg.MinReplicas ELSE min0
        max1 == IF max0 > cfg.MaxReplicas THEN cfg.MaxReplicas ELSE max0
        min2 == IF min1 > max1 THEN max1 ELSE min1
    IN [min |-> min2, max |-> max1]

\* the API server's validation of an HPA update
ValidHPA(h) == h.min >= 1 /\ h.max >= h.min

(***************************************************************************)
(* processHPA and processDeployment work on cl = [deps, hpas, written]:    *)
(* the Deployments, the HPAs and the objects updated so far                *)
(***************************************************************************)
\* as InitializeHPAOriginals, but stored on every pass
InitializeHPAOriginalsAlways(h) ==
    Set(Set(h.ann, OriginalMinReplicasAnnotation, FormatInt(h.min)),
        OriginalMaxReplicasAnnotation, FormatInt(h.max))

\* the original min/max annotations, stored if not already stored
InitializeHPAOriginals(h) ==
    LET a1 == IF Has(h.ann, OriginalMinReplicasAnnotation) THEN h.ann
              ELSE Set(h.ann, OriginalMinReplicasAnnotation, FormatInt(h.min))
    IN IF Has(a1, OriginalMaxReplicasAnnotation) THEN a1
       ELSE Set(a1, OriginalMaxReplicasAnnotation, FormatInt(h.max))

\* "Mark as managed by us" of processHPA
MarkHPAManaged(ann, ov) ==
    LET a == IF ov # NilOverride
             THEN Set(Set(ann, OverrideControllerAnnotation, "true"), ManagedAnnotation, "true")
             ELSE Set(ann, GlobalConfigManagedAnnotation, "true")
    IN Set(a, HPAManagedAnnotation, "true")

processHPA(cl, h, ov, cfg) ==
    LET hpa == cl.hpas[h]
        ann == MarkHPAManaged(InitializeHPAOriginals(hpa), ov)
        t == targetHPALimits(ParseInt(Get(ann, OriginalMinReplicasAnnotation)),
                             ParseInt(Get(ann, OriginalMaxReplicasAnnotation)),
                             Percentage(ov, cfg), cfg)
        new == [hpa EXCEPT !.min = t.min, !.max = t.max,
                           !.ann = Set(ann, LastHPAUpdateAnnotation, Timestamp)]
    IN IF ValidHPA(new)
       THEN [cl |-> [cl EXCEPT !.hpas[h] = new, !.written = @ \cup {h}], err |-> FALSE]
       ELSE [cl |-> cl, err |-> TRUE]

\* as InitializeOriginalReplicas, but stored on every pass
InitializeOriginalReplicasAlways(ann, replicas, hpaMin) ==
    IF hpaMin # NotFound
    THEN Set(ann, OriginalReplicasAnnotation, FormatInt(hpaMin))
    ELSE Set(ann, OriginalReplicasAnnotation, FormatInt(replicas))

\* "Store original replicas if not already stored": hpaMin is the minReplicas
\* of the HPA found for the Deployment, or NotFound
InitializeOriginalReplicas(ann, replicas, hpaMin) ==
    IF Has(ann, OriginalReplicasAnnotation) THEN ann
    ELSE IF hpaMin # NotFound
    THEN Set(ann, OriginalReplicasAnnotation, FormatInt(hpaMin))
    ELSE Set(ann, OriginalReplicasAnnotation, FormatInt(replicas))

\* "Mark as managed by us" of processDeployment
MarkDeploymentManaged(ann, ov) ==
    IF ov # NilOverride
    THEN Set(Set(ann, OverrideControllerAnnotation, "true"), ManagedAnnotation, "true")
    ELSE Set(ann, GlobalConfigManagedAnnotation, "true")

\* the annotation-only update of a Deployment that an HPA scales: only these
\* two annotations are copied to the latest version
UpdateHPAMode(ann) ==
    Set(Set(ann, ManagementModeAnnotation, "hpa"), GlobalConfigManagedAnnotation, "true")

\* as UpdateDirect, but sized from the current replica count
UpdateDirectFromCurrent(dep, ann, ov, cfg) ==
    LET a == Set(ann, ManagementModeAnnotation, "direct")
    IN [replicas |-> targetReplicas(dep.replicas, Percentage(ov, cfg), cfg),
        ann |-> Set(a, LastUpdateAnnotation, Timestamp)]

\* the direct update of a Deployment that no HPA scales
UpdateDirect(dep, ann, ov, cfg) ==
    LET a == Set(ann, ManagementModeAnnotation, "direct")
        original == ParseInt(Get(a, OriginalReplicasAnnotation))
    IN [replicas |-> targetReplicas(original, Percentage(ov, cfg), cfg),
        ann |-> Set(a, LastUpdateAnnotation, Timestamp)]

processDeployment(cl, d, ov, cfg) ==
    LET h == existingHPA(cl.hpas, d)
        dep == cl.deps[d]
        ann == MarkDeploymentManaged(
                   InitializeOriginalReplicas(dep.ann, dep.replicas,
                       IF h = NotFound THEN NotFound ELSE cl.hpas[h].min), ov)
    IN IF h # NotFound
       THEN processHPA([cl EXCEPT !.deps[d].ann = UpdateHPAMode(dep.ann),
                                  !.written = @ \cup {d}], h, ov, cfg)
       ELSE [cl |-> [cl EXCEPT !.deps[d] = UpdateDirect(dep, ann, ov, cfg),
                               !.written = @ \cup {d}],
             err |-> FALSE]

(***************************************************************************)
(* The cleanup pass of Reconcile                                           *)
(***************************************************************************)
\* the HPA half of the cleanup: reset to the stored values, drop the annotations
CleanUpHPA(hpa) ==
    LET originalMin == Get(hpa.ann, OriginalMinReplicasAnnotation)
        originalMax == Get(hpa.ann, OriginalMaxReplicasAnnotation)
    IN [hpa EXCEPT !.ann = Delete(hpa.ann, HPAAnnotations),
                   !.min = IF originalMin # "" THEN ParseInt(originalMin) ELSE @,
                   !.max = IF originalMax # "" THEN ParseInt(originalMax) ELSE @]

\* as CleanUpDeployment, but the replicas are left as they are
CleanUpDeploymentAnnotationsOnly(dep) ==
    [replicas |-> dep.replicas, ann |-> Delete(dep.ann, DeploymentAnnotations)]

\* the Deployment half of the cleanup
CleanUpDeployment(dep) ==
    LET originalReplicas == Get(dep.ann, OriginalReplicasAnnotation)
    IN [replicas |-> IF originalReplicas # "" THEN ParseInt(originalReplicas)
                     ELSE dep.replicas,
        ann |-> Delete(dep.ann, DeploymentAnnotations)]

\* the cleanup of one previously affected Deployment and of its HPA
CleanUp(cl, d) ==
    LET h == existingHPA(cl.hpas, d)
        hs == IF h = NotFound THEN cl.hpas
              ELSE [cl.hpas EXCEPT ![h] = CleanUpHPA(@)]
    IN [deps |-> [cl.deps EXCEPT ![d] = CleanUpDeployment(@)],
        hpas |-> hs,
        written |-> cl.written \cup {d} \cup (IF h = NotFound THEN {} ELSE {h})]

\* whether the pass cleans up the Deployment of the status record a
NeedsCleanUp(a, items) ==
    /\ ~ \E i \in 1..Len(items) :
           DepName(items[i]) = a.Name /\ DepNamespace(items[i]) = a.Namespace
    /\ GetDeployment(a.Namespace, a.Name) # NotFound

\* the loop over override.Status.AffectedDeployments; acc = [cl, reverted]
RECURSIVE CleanUpPass(_, _, _)
CleanUpPass(acc, affected, items) ==
    IF affected = <<>> THEN acc
    ELSE LET a == Head(affected)
             d == GetDeployment(a.Namespace, a.Name)
             acc1 == IF NeedsCleanUp(a, items)
                     THEN [cl |-> CleanUp(acc.cl, d), reverted |-> acc.reverted \cup {d}]
                     ELSE acc
         IN CleanUpPass(acc1, Tail(affected), items)

(***************************************************************************)
(* The processing loop of Reconcile                                        *)
(***************************************************************************)
AffectedDeployment(d, original, current, percentage) ==
    [Name |-> DepName(d), Namespace |-> DepNamespace(d), OriginalReplicas |-> original,
     CurrentReplicas |-> current, CurrentPercentage |-> percentage]

\* acc = [cl, affected, processed]
RECURSIVE ProcessPass(_, _, _, _, _)
ProcessPass(acc, items, spec, ig, cfg) ==
    IF items = <<>> THEN acc
    ELSE LET d == Head(items)
             originalReplicas ==
                 ParseInt(Get(acc.cl.deps[d].ann, OriginalReplicasAnnotation))
             r == processDeployment(acc.cl, d, spec, cfg)
             acc1 ==
                 IF ~ shouldProcessDeployment(d, spec) \/ IsIgnored(ig, d) THEN acc
                 ELSE IF r.err THEN [acc EXCEPT !.cl = r.cl]
                 ELSE [cl |-> r.cl,
                       affected |-> Append(acc.affected,
                           AffectedDeployment(d, originalReplicas, r.cl.deps[d].replicas,
                                              spec.ReplicasPercentage)),
                       processed |-> acc.processed \cup {d}]
         IN ProcessPass(acc1, Tail(items), spec, ig, cfg)

(***************************************************************************)
(* Reconcile: the outcome of one call for a key, as                        *)
(* [deps, hpas, ovs, path, processed, reverted, written, result]           *)
(***************************************************************************)
Key(ns, name) == <<ns, name>>
OvKey(o) == Key(OvNamespace(o), OvName(o))

\* r.Get of the ReplicasOverride of a key
GetOverride(ovs, key) ==
    IF \E o \in Overrides : ovs[o].exists /\ OvKey(o) = key
    THEN CHOOSE o \in Overrides : ovs[o].exists /\ OvKey(o) = key
    ELSE NotFound

Outcome(deps, hs, ovs, path, processed, reverted, written, result) ==
    [deps |-> deps, hpas |-> hs, ovs |-> ovs, path |-> path, processed |-> processed,
     reverted |-> reverted, written |-> written, result |-> result]

\* the key names no ReplicasOverride: the Deployment of that name under the
\* global config
ReconcileGlobal(key, deps, hs, ovs, ig, cfg) ==
    LET d == GetDeployment(key[1], key[2])
        r == processDeployment([deps |-> deps, hpas |-> hs, written |-> {}], d,
                               NilOverride, cfg)
    IN IF d = NotFound
       THEN Outcome(deps, hs, ovs, "global", {}, {}, {}, "done")
       ELSE IF IsIgnored(ig, d)
       THEN Outcome(deps, hs, ovs, "global", {}, {}, {}, "done")
       ELSE IF r.err
       THEN Outcome(r.cl.deps, r.cl.hpas, ovs, "global", {}, {}, r.cl.written, "error")
       ELSE Outcome(r.cl.deps, r.cl.hpas, ovs, "global", {d}, {}, r.cl.written, "requeue")

\* the key names the ReplicasOverride o
ReconcileOverride(o, deps, hs, ovs, ig, cfg) ==
    LET spec == ovs[o].spec
        items == ListedDeployments(o, spec)
        cleaned == CleanUpPass([cl |-> [deps |-> deps, hpas |-> hs, written |-> {}],
                                reverted |-> {}],
                               ovs[o].affected, items)
        done == ProcessPass([cl |-> cleaned.cl, affected |-> <<>>, processed |-> {}],
                            items, spec, ig, cfg)
    IN IF items = NotFound
       THEN Outcome(deps, hs, ovs, "override", {}, {}, {}, "done")
       ELSE Outcome(done.cl.deps, done.cl.hpas,
                    [ovs EXCEPT ![o].affected = done.affected],
                    "override", done.processed, cleaned.reverted,
                    done.cl.written \cup {o}, "requeue")

ReconcileOutcome(key, deps, hs, ovs, ig, cfg) ==
    LET o == GetOverride(ovs, key)
    IN IF o = NotFound
       THEN ReconcileGlobal(key, deps, hs, ovs, ig, cfg)
       ELSE ReconcileOverride(o, deps, hs, ovs, ig, cfg)

(***************************************************************************)
(* The map functions of SetupWithManager                                   *)
(***************************************************************************)
\* the Deployment map function: the requests it returns
DeploymentRequests(d, ovs, ig) ==
    IF IsIgnored(ig, d) THEN {}
    ELSE { OvKey(o) : o \in { x \in Overrides :
                                ovs[x].exists /\ shouldProcessDeployment(d, ovs[x].spec) } }

\* the Deployment map function: whether it updates the Deployment itself
DeploymentMarkedGlobal(d, ovs, ig) ==
    /\ ~ IsIgnored(ig, d)
    /\ ~ \E o \in Overrides : ovs[o].exists /\ shouldProcessDeployment(d, ovs[o].spec)

\* findReplicasOverridesForHPA: whether the override matches the HPA's target
HPAOverrideMatches(d, spec) ==
    IF /\ spec.DeploymentRef # NoRef
       /\ spec.DeploymentRef.Name = DepName(d)
       /\ spec.DeploymentRef.Namespace = DepNamespace(d)
    THEN TRUE
    ELSE IF spec.Selector # NoSelector /\ DOMAIN spec.Selector # {}
    THEN \A k \in DOMAIN spec.Selector : Get(DepLabels(d), k) = spec.Selector[k]
    ELSE FALSE

\* findReplicasOverridesForHPA: the requests it returns
findReplicasOverridesForHPA(h, hs, ovs, ig) ==
    LET d == GetDeployment(HpaNamespace(h), HpaTargetName(h))
        matching == { o \in Overrides : ovs[o].exists /\ HPAOverrideMatches(d, ovs[o].spec) }
    IN IF d = NotFound THEN {}
       ELSE IF IsIgnored(ig, d) THEN {}
       ELSE IF matching # {} THEN { OvKey(o) : o \in matching }
       ELSE { Key(HpaNamespace(h), hs[h].name) }

(***************************************************************************)
(* State                                                                   *)
(***************************************************************************)
VARIABLES
    deployments,   \* [Deployments -> [replicas, ann]]
    initial,       \* [Deployments -> the spec.replicas the Deployment was created with]
    hpas,          \* [HPAs -> [exists, name, min, max, ann]]
    overrides,     \* [Overrides -> [exists, spec, affected]]; a deleted object keeps
                   \* the status it had, which no handler reads
    ignore,        \* [exists, spec]: the GlobalReplicasIgnore object
    config,        \* the GlobalConfig the Manager returns from GetConfig
    queue,         \* keys <<namespace, name>> waiting for Reconcile (delayed ones included)
    edits,         \* user edits so far
    last           \* what the last handler did

vars == <<deployments, initial, hpas, overrides, ignore, config, queue, edits, last>>

NoHPA == [exists |-> FALSE, name |-> "", min |-> 0, max |-> 0, ann |-> <<>>]
NoOverride == [exists |-> FALSE, spec |-> <<>>, affected |-> <<>>]
NoIgnore == [exists |-> FALSE, spec |-> <<>>, status |-> <<>>]
\* last = [op, key, path, processed, reverted, written, changed, result]: the
\* handler that ran last, its key, the Deployments it processed and reverted,
\* the objects it updated, the replica numbers it changed (object |-> the
\* numbers before), its result
Idle == [op |-> "none", key |-> <<>>, path |-> "none", processed |-> {}, reverted |-> {},
         written |-> {}, changed |-> <<>>, result |-> "none"]

Init ==
    /\ initial \in [Deployments -> UNION {InitialReplicas(d) : d \in Deployments}]
    /\ \A d \in Deployments : initial[d] \in InitialReplicas(d)
    /\ deployments = [d \in Deployments |-> [replicas |-> initial[d], ann |-> UserAnnotations]]
    /\ hpas = [h \in HPAs |-> NoHPA]
    /\ overrides = [o \in Overrides |-> NoOverride]
    /\ ignore = NoIgnore
    /\ config \in Configs
    /\ queue = {}
    /\ edits = 0
    /\ last = Idle

(***************************************************************************)
(* The controller's handlers                                               *)
(***************************************************************************)
\* the objects whose replica numbers differ between two cluster states, each
\* with the numbers it had: spec.replicas, or <<minReplicas, maxReplicas>>
Changed(deps, hs, deps2, hs2) ==
    [x \in { d \in Deployments : deps2[d].replicas # deps[d].replicas }
           \cup { h \in HPAs : hs2[h].min # hs[h].min \/ hs2[h].max # hs[h].max } |->
        IF x \in Deployments THEN deps[x].replicas ELSE <<hs[x].min, hs[x].max>>]

\* a worker takes a key from the queue and runs Reconcile on it.  A result
\* with RequeueAfter (5 minutes) and an error (rate-limited retry) both put
\* the key back; the status update of the override pass is itself a watch
\* event for the ReplicasOverride's key.
Reconcile(key) ==
    /\ key \in queue
    /\ \E out \in {ReconcileOutcome(key, deployments, hpas, overrides, ignore, config)} :
          /\ deployments' = out.deps
          /\ hpas' = out.hpas
          /\ overrides' = out.ovs
          /\ queue' = IF out.result = "done" THEN queue \ {key} ELSE queue
          /\ last' = [op |-> "Reconcile", key |-> key, path |-> out.path,
                      processed |-> out.processed, reverted |-> out.reverted,
                      written |-> out.written,
                      changed |-> Changed(deployments, hpas, out.deps, out.hpas),
                      result |-> out.result]
    /\ UNCHANGED <<initial, ignore, config, edits>>

\* a watch event of Deployment d goes through the Deployment map function
DeploymentEvent(d) ==
    /\ deployments' =
           IF DeploymentMarkedGlobal(d, overrides, ignore)
           THEN [deployments EXCEPT ![d].ann = Set(@, GlobalConfigManagedAnnotation, "true")]
           ELSE deployments
    /\ queue' = queue \cup DeploymentRequests(d, overrides, ignore)
    /\ last' = [op |-> "DeploymentEvent", key |-> Key(DepNamespace(d), DepName(d)),
                path |-> "map", processed |-> {}, reverted |-> {},
                written |-> IF DeploymentMarkedGlobal(d, overrides, ignore) THEN {d} ELSE {},
                changed |-> <<>>, result |-> "none"]
    /\ UNCHANGED <<initial, hpas, overrides, ignore, config, edits>>

\* a watch event of HPA h goes through findReplicasOverridesForHPA
HPAEvent(h) ==
    /\ hpas[h].exists
    /\ queue' = queue \cup findReplicasOverridesForHPA(h, hpas, overrides, ignore)
    /\ last' = [op |-> "HPAEvent", key |-> Key(HpaNamespace(h), hpas[h].name),
                path |-> "map", processed |-> {}, reverted |-> {}, written |-> {},
                changed |-> <<>>, result |-> "none"]
    /\ UNCHANGED <<deployments, initial, hpas, overrides, ignore, config, edits>>

(***************************************************************************)
(* The environment                                                         *)
(***************************************************************************)
Edit ==
    /\ edits < MaxEdits
    /\ edits' = edits + 1
    /\ last' = [op |-> "Edit", key |-> <<>>, path |-> "user", processed |-> {},
                reverted |-> {}, written |-> {}, changed |-> <<>>, result |-> "none"]

\* For(&ReplicasOverride{}): every change of a ReplicasOverride queues its key
CreateOverride(o, spec) ==
    /\ ~ overrides[o].exists
    /\ overrides' = [overrides EXCEPT ![o] = [exists |-> TRUE, spec |-> spec,
                                              affected |-> <<>>]]
    /\ queue' = queue \cup {OvKey(o)}
    /\ Edit
    /\ UNCHANGED <<deployments, initial, hpas, ignore, config>>

UpdateOverride(o, spec) ==
    /\ overrides[o].exists
    /\ overrides[o].spec # spec
    /\ overrides' = [overrides EXCEPT ![o].spec = spec]
    /\ queue' = queue \cup {OvKey(o)}
    /\ Edit
    /\ UNCHANGED <<deployments, initial, hpas, ignore, config>>

DeleteOverride(o) ==
    /\ overrides[o].exists
    /\ overrides' = [overrides EXCEPT ![o].exists = FALSE, ![o].spec = <<>>]
    /\ queue' = queue \cup {OvKey(o)}
    /\ Edit
    /\ UNCHANGED <<deployments, initial, hpas, ignore, config>>

CreateIgnore(spec) ==
    /\ ~ ignore.exists
    /\ ignore' = [exists |-> TRUE, spec |-> spec, status |-> <<>>]
    /\ Edit
    /\ UNCHANGED <<deployments, initial, hpas, overrides, config, queue>>

DeleteIgnore ==
    /\ ignore.exists
    /\ ignore' = NoIgnore
    /\ Edit
    /\ UNCHANGED <<deployments, initial, hpas, overrides, config, queue>>

\* the configuration document changes and Manager.Reconcile loads it
LoadConfig(cfg) ==
    /\ cfg # config
    /\ config' = cfg
    /\ Edit
    /\ UNCHANGED <<deployments, initial, hpas, overrides, ignore, queue>>

CreateHPA(h, name) ==
    /\ ~ hpas[h].exists
    /\ hpas' = [hpas EXCEPT ![h] = [exists |-> TRUE, name |-> name, min |-> HpaInitialMin,
                                    max |-> HpaInitialMax, ann |-> UserAnnotations]]
    /\ Edit
    /\ UNCHANGED <<deployments, initial, overrides, ignore, config, queue>>

DeleteHPA(h) ==
    /\ hpas[h].exists
    /\ hpas' = [hpas EXCEPT ![h] = NoHPA]
    /\ Edit
    /\ UNCHANGED <<deployments, initial, overrides, ignore, config, queue>>

Keys == { OvKey(o) : o \in Overrides } \cup { Key(HpaNamespace(h), n) : h \in HPAs, n \in HpaNames }

Next ==
    \/ \E key \in Keys : Reconcile(key)
    \/ \E d \in Deployments : DeploymentEvent(d)
    \/ \E h \in HPAs : HPAEvent(h)
    \/ \E o \in Overrides : \E spec \in OverrideSpecs(o) : CreateOverride(o, spec)
    \/ \E o \in Overrides : \E spec \in OverrideSpecs(o) : UpdateOverride(o, spec)
    \/ \E o \in Overrides : DeleteOverride(o)
    \/ \E spec \in IgnoreSpecs : CreateIgnore(spec)
    \/ DeleteIgnore
    \/ \E cfg \in Configs : LoadConfig(cfg)
    \/ \E h \in HPAs, name \in HpaNames : CreateHPA(h, name)
    \/ \E h \in HPAs : DeleteHPA(h)

Spec == Init /\ [][Next]_vars

(***************************************************************************)
(* Sizing on its own: every original size, percentage and pair of limits   *)
(* of the sets below, one Deployment with or without a ReplicasOverride    *)
(* and with or without an HPA, and nothing but reconciliations             *)
(***************************************************************************)
SizingOriginals == 1..5
SizingPercentages == {0, 10, 50, 75, 100, 150, 200, 1000}
SizingConfigs ==
    { [GlobalPercentage |-> p, MinReplicas |-> lo, MaxReplicas |-> hi] :
        p \in SizingPercentages \ {1000}, lo \in {0, 1, 3}, hi \in {1, 5, 100} }

\* the ReplicasOverrideSpec values of the sizing runs: a deploymentRef at
\* every percentage, additive ones, ones with their own minReplicas and
\* maxReplicas, and one that carries only an hpaRef
SizingOverrideSpecs ==
    { ByRef("web", "", p) : p \in SizingPercentages }
    \cup { [ByRef("web", "", p) EXCEPT !.OverrideType = "additive"] : p \in {50, 150} }
    \cup { [ByRef("web", "", p) EXCEPT !.MinReplicas = b[1], !.MaxReplicas = b[2]] :
              p \in {10, 150}, b \in {<<<<3>>, <<5>>>>, <<Nil, <<5>>>>} }
    \cup { ByHPARef("web", "", 200) }

SizingInit ==
    /\ initial \in [Deployments -> SizingOriginals]
    /\ initial["d2"] \in InitialReplicas("d2")
    /\ deployments = [d \in Deployments |-> [replicas |-> initial[d], ann |-> <<>>]]
    /\ hpas \in {[h \in HPAs |-> NoHPA],
                 [h \in HPAs |-> [exists |-> TRUE, name |-> "web", min |-> HpaInitialMin,
                                  max |-> HpaInitialMax, ann |-> <<>>]]}
    /\ overrides \in
          {[o \in Overrides |-> NoOverride]}
          \cup { [o \in Overrides |->
                     IF o = "o1"
                     THEN [exists |-> TRUE, spec |-> spec, affected |-> <<>>]
                     ELSE NoOverride] : spec \in SizingOverrideSpecs }
    /\ ignore = NoIgnore
    /\ config \in {c \in SizingConfigs : c.MinReplicas <= c.MaxReplicas}
    /\ queue = {OvKey("o1")}
    /\ edits = 0
    /\ last = Idle

SizingNext == \E key \in Keys : Reconcile(key)

SizingSpec == SizingInit /\ [][SizingNext]_vars

(***************************************************************************)
(* The GlobalReplicasIgnore controller on its own: it writes nothing but   *)
(* the status of the GlobalReplicasIgnore object, which no other handler   *)
(* reads. One rule out of every combination of the sets below, and nothing *)
(* but its reconciliations                                                 *)
(***************************************************************************)
IgnoredDeployment(d, reason) ==
    [Name |-> DepName(d), Namespace |-> DepNamespace(d), Reason |-> reason]

\* as IgnoredDeployments, but every Deployment of the list is recorded
RECURSIVE IgnoredDeploymentsUnfiltered(_, _)
IgnoredDeploymentsUnfiltered(items, ig) ==
    IF items = <<>> THEN <<>>
    ELSE <<IgnoredDeployment(Head(items), ShouldIgnoreDeployment(Head(items), ig).reason)>>
         \o IgnoredDeploymentsUnfiltered(Tail(items), ig)

\* the loop of GlobalReplicasIgnoreReconciler.Reconcile over deployments.Items
RECURSIVE IgnoredDeployments(_, _)
IgnoredDeployments(items, ig) ==
    IF items = <<>> THEN <<>>
    ELSE LET r == ShouldIgnoreDeployment(Head(items), ig)
         IN (IF r.ignored THEN <<IgnoredDeployment(Head(items), r.reason)>> ELSE <<>>)
            \o IgnoredDeployments(Tail(items), ig)

\* GlobalReplicasIgnoreReconciler.Reconcile of the GlobalReplicasIgnore object
IgnoreReconcile ==
    /\ ignore.exists
    /\ ignore' = [ignore EXCEPT !.status = IgnoredDeployments(DeploymentItems, ignore.spec)]
    /\ last' = [Idle EXCEPT !.op = "IgnoreReconcile", !.path = "ignore",
                            !.result = "requeue"]
    /\ UNCHANGED <<deployments, initial, hpas, overrides, config, queue, edits>>

\* the full-sweep Reconcile: the namespace/name keys of its map of ignored
\* Deployments, from the Deployments of the ignored namespaces, the resource
\* entries (an empty namespace read as "default") and the Deployments that a
\* List with client.MatchingLabels(IgnoreLabels) returns
ignoredDeployments(ig) ==
    { Key(DepNamespace(d), DepName(d)) :
        d \in { x \in Deployments : DepNamespace(x) \in ig.IgnoreNamespaces } }
    \cup { Key(IF res.Namespace = "" THEN "default" ELSE res.Namespace, res.Name) :
             res \in { x \in ig.IgnoreResources : x.Kind = "Deployment" } }
    \cup (IF DOMAIN ig.IgnoreLabels # {}
          THEN { Key(DepNamespace(d), DepName(d)) :
                   d \in { x \in Deployments : MatchingLabels(ig.IgnoreLabels, x) } }
          ELSE {})

\* the full-sweep Reconcile: the names of its map of ignored namespaces
ignoredNamespaces(ig) == ig.IgnoreNamespaces

EligibilityNamespaces == {"a", "b"}
EligibilityResources ==
    { {},
      {[Kind |-> "Deployment", Name |-> "web", Namespace |-> ""]},
      {[Kind |-> "Deployment", Name |-> "web", Namespace |-> "b"]},
      {[Kind |-> "Deployment", Name |-> "api", Namespace |-> "b"]},
      {[Kind |-> "HorizontalPodAutoscaler", Name |-> "web", Namespace |-> ""]} }
EligibilityLabels ==
    { <<>>, [tier |-> "front"], [tier |-> "back"], [canary |-> ""], [app |-> "x"],
      [tier |-> "front", app |-> "y"] }
EligibilityRules ==
    { [IgnoreNamespaces |-> ns, IgnoreResources |-> rs, IgnoreLabels |-> ls] :
        ns \in SUBSET EligibilityNamespaces, rs \in EligibilityResources,
        ls \in EligibilityLabels }

EligibilityInit ==
    /\ initial \in [Deployments -> UNION {InitialReplicas(d) : d \in Deployments}]
    /\ \A d \in Deployments : initial[d] \in InitialReplicas(d)
    /\ deployments = [d \in Deployments |-> [replicas |-> initial[d], ann |-> <<>>]]
    /\ hpas = [h \in HPAs |-> NoHPA]
    /\ overrides = [o \in Overrides |-> NoOverride]
    /\ ignore \in { [exists |-> TRUE, spec |-> rule, status |-> <<>>] :
                       rule \in EligibilityRules }
    /\ config = DefaultConfig
    /\ queue = {}
    /\ edits = 0
    /\ last = Idle

EligibilityNext == IgnoreReconcile

EligibilitySpec == EligibilityInit /\ [][EligibilityNext]_vars

(***************************************************************************)
(* The config Manager on its own: the configuration starts as              *)
(* DefaultConfig, and every step is a load (Start or Reconcile) of what    *)
(* the cluster holds at that moment: no ConfigMap, a ConfigMap without the *)
(* key config.yaml, text that is no YAML, or a YAML document with some of  *)
(* the three keys                                                          *)
(***************************************************************************)
NoConfigMap == [kind |-> "missing", fields |-> <<>>]
NoConfigMapKey == [kind |-> "nokey", fields |-> <<>>]
NotYAML == [kind |-> "garbage", fields |-> <<>>]
YAMLDocuments ==
    { [kind |-> "yaml", fields |-> f] :
        f \in UNION { [ks -> {1, 3, 50, 100, 150}] :
                        ks \in SUBSET {"globalPercentage", "minReplicas", "maxReplicas"} } }
ConfigDocuments == {NoConfigMap, NoConfigMapKey, NotYAML} \cup YAMLDocuments

\* yaml.Unmarshal into a fresh GlobalConfig{}: a key the document lacks
\* leaves the zero value
Unmarshal(fields) ==
    [GlobalPercentage |-> IF "globalPercentage" \in DOMAIN fields
                          THEN fields["globalPercentage"] ELSE 0,
     MinReplicas |-> IF "minReplicas" \in DOMAIN fields THEN fields["minReplicas"] ELSE 0,
     MaxReplicas |-> IF "maxReplicas" \in DOMAIN fields THEN fields["maxReplicas"] ELSE 0]

\* as loadConfig, but the struct is published whatever Unmarshal returned
loadConfigPublishing(cur, doc) ==
    IF doc.kind \in {"missing", "nokey"} THEN [config |-> cur, err |-> TRUE]
    ELSE [config |-> Unmarshal(doc.fields), err |-> doc.kind # "yaml"]

\* Manager.loadConfig: m.config before, what the cluster holds; the result is
\* m.config after and whether an error was returned
loadConfig(cur, doc) ==
    IF doc.kind # "yaml" THEN [config |-> cur, err |-> TRUE]
    ELSE [config |-> Unmarshal(doc.fields), err |-> FALSE]

\* Manager.Start and Manager.Reconcile: one load
ManagerReconcile(doc) ==
    /\ \E out \in {loadConfig(config, doc)} :
          /\ config' = out.config
          /\ last' = [Idle EXCEPT !.op = "LoadConfig", !.key = doc, !.path = "config",
                                  !.result = IF out.err THEN "error" ELSE "done"]
    /\ UNCHANGED <<deployments, initial, hpas, overrides, ignore, queue, edits>>

ConfigInit ==
    /\ initial \in [Deployments -> UNION {InitialReplicas(d) : d \in Deployments}]
    /\ \A d \in Deployments : initial[d] \in InitialReplicas(d)
    /\ deployments = [d \in Deployments |-> [replicas |-> initial[d], ann |-> <<>>]]
    /\ hpas = [h \in HPAs |-> NoHPA]
    /\ overrides = [o \in Overrides |-> NoOverride]
    /\ ignore = NoIgnore
    /\ config = DefaultConfig
    /\ queue = {}
    /\ edits = 0
    /\ last = Idle

ConfigNext == \E doc \in ConfigDocuments : ManagerReconcile(doc)

ConfigSpec == ConfigInit /\ [][ConfigNext]_vars

(***************************************************************************)
(* Hand-edited annotations: one Deployment that the engine manages, with    *)
(* or without an HPA, whose original-replicas (and hpa-original-min) holds  *)
(* a decimal or some other text; a ReplicasOverride that either names the   *)
(* Deployment or has named it before; and nothing but reconciliations       *)
(***************************************************************************)
\* annotation values that strconv.ParseInt(s, 10, 32) rejects
MalformedValues == {"x4", "4.0"}

MalformedInit ==
    /\ initial \in [Deployments -> SizingOriginals]
    /\ initial["d2"] \in InitialReplicas("d2")
    /\ \E v \in MalformedValues \cup {FormatInt(initial["d1"])} :
          /\ deployments =
                [d \in Deployments |->
                    [replicas |-> initial[d],
                     ann |-> IF d = "d1"
                             THEN Set(Set(UserAnnotations, OverrideControllerAnnotation, "true"),
                                      OriginalReplicasAnnotation, v)
                             ELSE UserAnnotations]]
          /\ hpas \in {[h \in HPAs |-> NoHPA],
                       [h \in HPAs |->
                           [exists |-> TRUE, name |-> "web", min |-> HpaInitialMin,
                            max |-> HpaInitialMax,
                            ann |-> Set(Set(UserAnnotations, OriginalMaxReplicasAnnotation,
                                            FormatInt(HpaInitialMax)),
                                        OriginalMinReplicasAnnotation,
                                        IF v \in MalformedValues THEN v
                                        ELSE FormatInt(HpaInitialMin))]]}
    /\ overrides \in
          { [o \in Overrides |->
                IF o = "o1"
                THEN [exists |-> TRUE, spec |-> ByRef("web", "", p), affected |-> <<>>]
                ELSE NoOverride] : p \in {50, 150} }
          \cup { [o \in Overrides |->
                    IF o = "o1"
                    THEN [exists |-> TRUE, spec |-> ByRef("api", "b", 50),
                          affected |-> <<AffectedDeployment("d1", 0, initial["d1"], 50)>>]
                    ELSE NoOverride] }
    /\ ignore = NoIgnore
    /\ config \in {c \in SizingConfigs : 1 <= c.MinReplicas /\ c.MinReplicas <= c.MaxReplicas}
    /\ queue = {OvKey("o1")}
    /\ edits = 0
    /\ last = Idle

MalformedNext == \E key \in Keys : Reconcile(key)

MalformedSpec == MalformedInit /\ [][MalformedNext]_vars

(***************************************************************************)
(* API errors: a pass of Reconcile for a ReplicasOverride in which one call *)
(* made for the Deployment fault.at fails: the List of the ignore rules in  *)
(* the loop, the List of the HPAs in processDeployment, or the Get of the   *)
(* updated Deployment; or in which the next fault.n Updates of the object   *)
(* fault.at (a Deployment, the HPA or the ReplicasOverride) are answered    *)
(* with a conflict, because another writer keeps changing the object. One   *)
(* ReplicasOverride over one or both Deployments, with or without an HPA    *)
(* and an ignore rule, and nothing but such passes                          *)
(***************************************************************************)
\* retry.DefaultRetry of k8s.io/client-go/util/retry: five attempts
DefaultRetry == [Steps |-> 5]

\* retry.RetryOnConflict(retry.DefaultRetry, fn) when the next n Updates of
\* fn conflict: the number of calls of fn, and whether the last one succeeded
RetryOnConflict(n) ==
    [attempts |-> IF n < DefaultRetry.Steps THEN n + 1 ELSE DefaultRetry.Steps,
     applied |-> n < DefaultRetry.Steps]

\* a single r.Update when the next n Updates conflict
Update(n) == [attempts |-> 1, applied |-> n = 0]

\* the processing loop with the fault;
\* acc = [cl, affected, processed, aborted, attempts]
RECURSIVE ProcessPassFaulty(_, _, _, _, _, _)
ProcessPassFaulty(acc, items, spec, ig, cfg, fault) ==
    IF items = <<>> THEN acc
    ELSE LET d == Head(items)
             h == existingHPA(acc.cl.hpas, d)
             fails(call) == fault.at = d /\ fault.call = call
             conflicts(x) == IF fault.call = "Conflict" /\ fault.at = x THEN fault.n ELSE 0
             originalReplicas ==
                 ParseInt(Get(acc.cl.deps[d].ann, OriginalReplicasAnnotation))
             r == processDeployment(acc.cl, d, spec, cfg)
             \* the writes of processDeployment: the Deployment, then the HPA
             wd == IF h = NotFound THEN Update(conflicts(d)) ELSE RetryOnConflict(conflicts(d))
             wh == Update(conflicts(h))
             tried == IF conflicts(d) > 0 THEN wd.attempts
                      ELSE IF h # NotFound /\ conflicts(h) > 0 /\ ~ r.err THEN wh.attempts
                      ELSE acc.attempts
             rest(acc1) == ProcessPassFaulty(acc1, Tail(items), spec, ig, cfg, fault)
         IN IF ~ shouldProcessDeployment(d, spec) THEN rest(acc)
            ELSE IF fails("ListIgnores") THEN [acc EXCEPT !.aborted = TRUE]
            ELSE IF IsIgnored(ig, d) THEN rest(acc)
            ELSE IF fails("ListHPAs") THEN rest(acc)
            ELSE IF ~ wd.applied THEN rest([acc EXCEPT !.attempts = tried])
            ELSE IF h # NotFound /\ ~ r.err /\ ~ wh.applied
            THEN rest([acc EXCEPT !.cl.deps[d].ann = UpdateHPAMode(@),
                                  !.cl.written = @ \cup {d},
                                  !.attempts = tried])
            ELSE IF r.err THEN rest([acc EXCEPT !.cl = r.cl, !.attempts = tried])
            ELSE IF fails("GetUpdated") THEN rest([acc EXCEPT !.cl = r.cl])
            ELSE rest([acc EXCEPT
                         !.cl = r.cl,
                         !.affected = Append(@,
                             AffectedDeployment(d, originalReplicas, r.cl.deps[d].replicas,
                                                spec.ReplicasPercentage)),
                         !.processed = @ \cup {d},
                         !.attempts = tried])

\* Reconcile for the key of an existing ReplicasOverride, with the fault
ReconcileFaulty(key, fault) ==
    /\ key \in queue
    /\ GetOverride(overrides, key) # NotFound
    /\ \E o \in {GetOverride(overrides, key)} :
       \E items \in {ListedDeployments(o, overrides[o].spec)} :
       \E cleaned \in {CleanUpPass([cl |-> [deps |-> deployments, hpas |-> hpas,
                                            written |-> {}],
                                    reverted |-> {}],
                                   overrides[o].affected, items)} :
       \E done \in {ProcessPassFaulty([cl |-> cleaned.cl, affected |-> <<>>,
                                       processed |-> {}, aborted |-> FALSE,
                                       attempts |-> 0],
                                      items, overrides[o].spec, ignore, config, fault)} :
       \E status \in {IF fault.call = "Conflict" /\ fault.at = o
                      THEN RetryOnConflict(fault.n) ELSE RetryOnConflict(0)} :
          /\ items # NotFound
          /\ deployments' = done.cl.deps
          /\ hpas' = done.cl.hpas
          /\ overrides' = IF done.aborted \/ ~ status.applied THEN overrides
                          ELSE [overrides EXCEPT ![o].affected = done.affected]
          /\ last' = [op |-> "Reconcile", key |-> key, path |-> "override",
                      processed |-> done.processed, reverted |-> cleaned.reverted,
                      written |-> done.cl.written
                                  \cup (IF done.aborted \/ ~ status.applied THEN {} ELSE {o}),
                      changed |-> Changed(deployments, hpas, done.cl.deps, done.cl.hpas),
                      result |-> IF done.aborted \/ ~ status.applied
                                 THEN "error" ELSE "requeue",
                      fault |-> fault,
                      attempts |-> IF fault.call = "Conflict" /\ fault.at = o
                                      /\ ~ done.aborted
                                   THEN status.attempts ELSE done.attempts]
    /\ UNCHANGED <<initial, ignore, config, queue, edits>>

FaultInit ==
    /\ initial \in [Deployments -> UNION {InitialReplicas(d) : d \in Deployments}]
    /\ \A d \in Deployments : initial[d] \in InitialReplicas(d)
    /\ deployments = [d \in Deployments |-> [replicas |-> initial[d], ann |-> UserAnnotations]]
    /\ hpas \in {[h \in HPAs |-> NoHPA],
                 [h \in HPAs |-> [exists |-> TRUE, name |-> "web", min |-> HpaInitialMin,
                                  max |-> HpaInitialMax, ann |-> UserAnnotations]]}
    /\ overrides \in
          { [o \in Overrides |->
                IF o = "o1" THEN [exists |-> TRUE, spec |-> spec, affected |-> <<>>]
                ELSE NoOverride] :
              spec \in {BySelector([app |-> "x"], 50), BySelector([app |-> "x"], 150),
                        ByRef("web", "a", 150)} }
    /\ ignore \in {NoIgnore}
                  \cup {[exists |-> TRUE, spec |-> sp, status |-> <<>>] : sp \in IgnoreSpecs}
    /\ config \in Configs
    /\ queue = {OvKey("o1")}
    /\ edits = 0
    /\ last = Idle

FaultNext ==
    \E key \in Keys :
       \/ \E call \in {"none", "ListIgnores", "ListHPAs", "GetUpdated"}, d \in Deployments :
             ReconcileFaulty(key, [call |-> call, at |-> d, n |-> 0])
       \/ \E x \in Deployments \cup HPAs \cup Overrides, n \in 1..MaxConflicts :
             ReconcileFaulty(key, [call |-> "Conflict", at |-> x, n |-> n])

FaultSpec == FaultInit /\ [][FaultNext]_vars

(***************************************************************************)
(* The controller left to itself: a fixed set of ReplicasOverrides, ignore  *)
(* rules and configuration, no user edits, and nothing but reconciliations  *)
(* and the watch events that the controller's own writes cause. Every key   *)
(* in the queue is reconciled again and again (RequeueAfter, and the        *)
(* requests of the map functions)                                           *)
(***************************************************************************)
ConvergeInit ==
    /\ initial \in [Deployments -> UNION {InitialReplicas(d) : d \in Deployments}]
    /\ \A d \in Deployments : initial[d] \in InitialReplicas(d)
    /\ deployments = [d \in Deployments |-> [replicas |-> initial[d], ann |-> UserAnnotations]]
    /\ hpas \in {[h \in HPAs |-> NoHPA]}
                \cup { [h \in HPAs |-> [exists |-> TRUE, name |-> n, min |-> HpaInitialMin,
                                         max |-> HpaInitialMax, ann |-> UserAnnotations]] :
                         n \in HpaNames }
    /\ overrides \in
          { [o \in Overrides |->
                IF o = "o1" THEN [exists |-> TRUE, spec |-> s1, affected |-> <<>>]
                ELSE IF both
                THEN [exists |-> TRUE, spec |-> BySelector([tier |-> "front"], 50),
                      affected |-> <<>>]
                ELSE NoOverride] :
              s1 \in OverrideSpecs("o1") \cup {ByRef("api", "", 50)}, both \in BOOLEAN }
    /\ ignore \in {NoIgnore}
                  \cup {[exists |-> TRUE, spec |-> sp, status |-> <<>>] : sp \in IgnoreSpecs}
    /\ config \in Configs
    /\ queue = { OvKey(o) : o \in {x \in Overrides : overrides[x].exists} }
    /\ edits = 0
    /\ last = Idle

ConvergeNext ==
    \/ \E key \in Keys : Reconcile(key)
    \/ \E d \in Deployments : DeploymentEvent(d)
    \/ \E h \in HPAs : HPAEvent(h)

\* Reconcile(key) is enabled exactly when the key is in the queue, and its
\* weak fairness is written with that condition: the key is out of the
\* queue again and again, or it is reconciled again and again.  The watch
\* events are delivered again and again (informer resync).
ConvergeSpec ==
    /\ ConvergeInit
    /\ [][ConvergeNext]_vars
    /\ \A key \in Keys :
          \/ []<>(key \notin queue)
          \/ []<><<last'.op = "Reconcile" /\ last'.key = key>>_vars
    /\ \A d \in Deployments : WF_vars(DeploymentEvent(d))

(***************************************************************************)
(* Reconciliations that overlap: two ReplicasOverrides that select the same *)
(* Deployment, each pass taken apart into its reads and its writes.  A pass *)
(* lists the Deployments, later lists the HPAs, and later still writes what *)
(* it computed from the two lists; a pass of the other key, or a user who   *)
(* scales a Deployment nobody manages yet, may act in between.  last.reads  *)
(* holds, for each key, how far its pass is and the lists it has read       *)
(***************************************************************************)
Unmanaged(dep) == DOMAIN dep.ann \cap DeploymentAnnotations = {}

NotReading == [pc |-> "idle", deps |-> <<>>, hpas |-> <<>>]

StaleInit ==
    /\ initial \in [Deployments -> UNION {InitialReplicas(d) : d \in Deployments}]
    /\ \A d \in Deployments : initial[d] \in InitialReplicas(d)
    /\ deployments = [d \in Deployments |-> [replicas |-> initial[d], ann |-> UserAnnotations]]
    /\ hpas \in {[h \in HPAs |-> NoHPA],
                 [h \in HPAs |-> [exists |-> TRUE, name |-> "web-hpa", min |-> HpaInitialMin,
                                  max |-> HpaInitialMax, ann |-> UserAnnotations]]}
    /\ overrides \in
          { [o \in Overrides |->
                [exists |-> TRUE, affected |-> <<>>,
                 spec |-> IF o = "o1" THEN s1 ELSE BySelector([tier |-> "front"], 50)]] :
              s1 \in {ByRef("web", "a", 150), ByRef("web", "", 150)} }
    /\ ignore = NoIgnore
    /\ config = DefaultConfig
    /\ queue = { OvKey(o) : o \in Overrides }
    /\ edits = 0
    /\ last = [op |-> "none", key |-> <<>>, path |-> "none", processed |-> {},
               reverted |-> {}, written |-> {}, changed |-> <<>>, result |-> "none",
               reads |-> [key \in queue |-> NotReading]]

\* Reconcile: r.List / r.Get of the Deployments of the ReplicasOverride
ListDeployments(key) ==
    /\ key \in queue
    /\ last.reads[key].pc = "idle"
    /\ last' = [op |-> "ListDeployments", key |-> key, path |-> "override",
                processed |-> {}, reverted |-> {}, written |-> {}, changed |-> <<>>,
                result |-> "none",
                reads |-> [last.reads EXCEPT ![key] =
                              [pc |-> "listed", deps |-> deployments, hpas |-> <<>>]]]
    /\ UNCHANGED <<deployments, initial, hpas, overrides, ignore, config, queue, edits>>

\* processDeployment: r.List of the HPAs of the Deployment's namespace
ListHPAs(key) ==
    /\ key \in queue
    /\ last.reads[key].pc = "listed"
    /\ last' = [op |-> "ListHPAs", key |-> key, path |-> "override",
                processed |-> {}, reverted |-> {}, written |-> {}, changed |-> <<>>,
                result |-> "none",
                reads |-> [last.reads EXCEPT ![key].pc = "hpas", ![key].hpas = hpas]]
    /\ UNCHANGED <<deployments, initial, hpas, overrides, ignore, config, queue, edits>>

\* as UpdateObject, but the write is stored whatever the object has become
UpdateObjectUnchecked(read, current, new) == new

\* r.Update of an object that was read earlier: the object that comes back
\* carries the metadata.resourceVersion it was read with, and the write is
\* refused with a conflict when the stored object has changed since.  A stored
\* object equal to the one read takes the write as a fresh read would
UpdateObject(read, current, new) == IF read = current THEN new ELSE current

\* the writes of the pass: per Deployment the direct Update of the object
\* from the list, or, under an HPA, the Update of the re-read Deployment and
\* the Update of the HPA from the list; a refused write ends the processing
\* of that Deployment, which is then left out of the status
WriteBack(key) ==
    /\ key \in queue
    /\ last.reads[key].pc = "hpas"
    /\ \E rd \in {last.reads[key]}, o \in {GetOverride(overrides, key)} :
       \E out \in {ReconcileOverride(o, rd.deps, rd.hpas, overrides, ignore, config)} :
       \E deps2 \in {[d \in Deployments |->
                       IF d \notin out.written THEN deployments[d]
                       ELSE IF existingHPA(rd.hpas, d) = NotFound
                       THEN UpdateObject(rd.deps[d], deployments[d], out.deps[d])
                       ELSE [deployments[d] EXCEPT !.ann = UpdateHPAMode(@)]]},
          hpas2 \in {[h \in HPAs |->
                       IF h \notin out.written THEN hpas[h]
                       ELSE UpdateObject(rd.hpas[h], hpas[h], out.hpas[h])]} :
       \E refused \in {{ d \in out.written \cap Deployments :
                          IF existingHPA(rd.hpas, d) = NotFound
                          THEN deps2[d] # out.deps[d]
                          ELSE hpas2[existingHPA(rd.hpas, d)]
                                 # out.hpas[existingHPA(rd.hpas, d)] }} :
          LET listed(e) == GetDeployment(e.Namespace, e.Name) \notin refused
              fresh(e) == [e EXCEPT !.CurrentReplicas =
                                       deps2[GetDeployment(e.Namespace, e.Name)].replicas]
              kept == SelectSeq(out.ovs[o].affected, listed)
          IN /\ deployments' = deps2
             /\ hpas' = hpas2
             /\ overrides' = [overrides EXCEPT ![o].affected =
                                 [i \in 1..Len(kept) |-> fresh(kept[i])]]
             /\ last' = [op |-> "WriteBack", key |-> key, path |-> "override",
                         processed |-> out.processed \ refused, reverted |-> out.reverted,
                         written |-> { x \in out.written \cap (Deployments \cup HPAs) :
                                         IF x \in Deployments THEN deps2[x] # deployments[x]
                                         ELSE hpas2[x] # hpas[x] },
                         changed |-> Changed(deployments, hpas, deps2, hpas2),
                         result |-> IF refused = {} THEN "requeue" ELSE "conflict",
                         reads |-> [last.reads EXCEPT ![key] = NotReading]]
    /\ UNCHANGED <<initial, ignore, config, queue, edits>>

\* a user scales a Deployment that a ReplicasOverride selects and that carries
\* no annotation of the controller yet: the size it has before it is managed
UserScale(d) ==
    /\ edits < MaxEdits
    /\ Unmanaged(deployments[d])
    /\ \E o \in Overrides : overrides[o].exists /\ shouldProcessDeployment(d, overrides[o].spec)
    /\ deployments' = [deployments EXCEPT ![d].replicas = @ + 1]
    /\ initial' = [initial EXCEPT ![d] = deployments[d].replicas + 1]
    /\ edits' = edits + 1
    /\ last' = [last EXCEPT !.op = "UserScale", !.key = <<>>, !.processed = {},
                            !.reverted = {}, !.written = {}, !.changed = <<>>,
                            !.result = "none"]
    /\ UNCHANGED <<hpas, overrides, ignore, config, queue>>

StaleNext ==
    \/ \E key \in Keys : ListDeployments(key)
    \/ \E key \in Keys : ListHPAs(key)
    \/ \E key \in Keys : WriteBack(key)
    \/ \E d \in Deployments : UserScale(d)

StaleSpec == StaleInit /\ [][StaleNext]_vars

(***************************************************************************)
(* Properties                                                              *)
(***************************************************************************)
Max(a, b) == IF a >= b THEN a ELSE b
Min(a, b) == IF a <= b THEN a ELSE b

\* the percentage that governs the reconciliation recorded in l: that of the
\* ReplicasOverride of its key, or the global one
GoverningPercentage(l) ==
    IF l.path = "override"
    THEN overrides[GetOverride(overrides, l.key)].spec.ReplicasPercentage
    ELSE config.GlobalPercentage

HasNoHPA(d) == existingHPA(hpas, d) = NotFound

UnmanagedHPA(hpa) == DOMAIN hpa.ann \cap HPAAnnotations = {}

\* C1: on a Deployment without an HPA, original-replicas equals the initial
\* spec.replicas after a successful reconciliation (override or global path),
\* and once set it keeps its value in every step that does not revert the
\* Deployment.
C1_OriginIdempotence ==
    [][\A d \in Deployments :
         /\ (last'.op = "Reconcile" /\ d \in last'.processed /\ HasNoHPA(d))
               => Get(deployments'[d].ann, OriginalReplicasAnnotation) = FormatInt(initial[d])
         /\ (/\ Has(deployments[d].ann, OriginalReplicasAnnotation)
             /\ ~ (last'.op = "Reconcile" /\ d \in last'.reverted))
               => Get(deployments'[d].ann, OriginalReplicasAnnotation)
                    = deployments[d].ann[OriginalReplicasAnnotation]]_vars

\* C1 witness: a Deployment without an HPA that an override pass scaled
\* earlier has just been processed by a global pass, is away from its initial
\* size and still carries the initial size as original-replicas.
C1_Witness ==
    \E d \in Deployments :
        /\ last.op = "Reconcile" /\ last.path = "global" /\ d \in last.processed
        /\ HasNoHPA(d)
        /\ Get(deployments[d].ann, OverrideControllerAnnotation) = "true"
        /\ deployments[d].replicas # initial[d]
        /\ Get(deployments[d].ann, OriginalReplicasAnnotation) = FormatInt(initial[d])

\* C2: a direct-mode reconciliation sets spec.replicas to the target of the
\* original size under the governing percentage, whatever the current
\* replica count is; so a second reconciliation of the same key changes
\* nothing, and original 4 goes from 6 (global 150%) to 2 (override 50%).
C2_SizedFromOriginal ==
    [][last'.op = "Reconcile" =>
         \A d \in last'.processed :
            HasNoHPA(d) =>
               /\ deployments'[d].replicas
                    = targetReplicas(initial[d], GoverningPercentage(last'), config)
               /\ (last.op = "Reconcile" /\ last.key = last'.key /\ d \in last.processed)
                     => deployments'[d].replicas = deployments[d].replicas]_vars

\* C2 witness: the Deployment with original 4 stood at 6 under the global
\* 150% and the override pass at 50% has just moved it to 2.
C2_Witness ==
    /\ last.op = "Reconcile" /\ last.path = "override" /\ "d1" \in last.processed
    /\ initial["d1"] = 4 /\ config.GlobalPercentage = 150
    /\ GoverningPercentage(last) = 50
    /\ "d1" \in DOMAIN last.changed /\ last.changed["d1"] = 6
    /\ deployments["d1"].replicas = 2
    /\ Get(deployments["d1"].ann, GlobalConfigManagedAnnotation) = "true"
    /\ Get(deployments["d1"].ann, OriginalReplicasAnnotation) = "4"

\* C3: the replica count a reconciliation writes to a Deployment lies between
\* max(1, min) and max of the limits in force.
C3_BoundedSize ==
    \A d \in Deployments :
        (last.op = "Reconcile" /\ d \in last.processed /\ HasNoHPA(d))
           => /\ Max(1, config.MinReplicas) <= deployments[d].replicas
              /\ deployments[d].replicas <= config.MaxReplicas

\* original * percentage / 100 rounded to the nearest integer, halves away from zero
RoundHalfAway(original, percentage) == (original * percentage + 50) \div 100

\* C4: the replica count a reconciliation writes to a Deployment is
\* min(max, max(min, max(1, R))), R the rounded product; stated for limits
\* with min >= 1, where the floor of one replica is not in question.
C4_RoundedTarget ==
    \A d \in Deployments :
        (/\ last.op = "Reconcile" /\ d \in last.processed /\ HasNoHPA(d)
         /\ config.MinReplicas >= 1)
           => deployments[d].replicas
                = Min(config.MaxReplicas,
                      Max(config.MinReplicas,
                          Max(1, RoundHalfAway(initial[d], GoverningPercentage(last)))))

\* C5: no reconciliation changes the spec.replicas of a Deployment that an
\* HPA selects.
C5_HPAPrecedence ==
    [][last'.op = "Reconcile" =>
         \A d \in Deployments :
            ~ HasNoHPA(d) => deployments'[d].replicas = deployments[d].replicas]_vars

\* C6: a reversion leaves the Deployment with its initial spec.replicas and
\* none of the management annotations, and leaves the HPA that targets it with
\* its initial min/max and none of the engine's annotations.
C6_RoundTrip ==
    [][last'.op = "Reconcile" =>
         \A d \in last'.reverted :
            /\ deployments'[d].replicas = initial[d]
            /\ Unmanaged(deployments'[d])
            /\ \A h \in HPAs :
                  h = existingHPA(hpas, d) =>
                     /\ hpas'[h].min = HpaInitialMin
                     /\ hpas'[h].max = HpaInitialMax
                     /\ UnmanagedHPA(hpas'[h])]_vars

\* C6 witness: the pass has just reverted a Deployment and its HPA, both of
\* which stood at scaled numbers, to their initial numbers without annotations.
C6_Witness ==
    /\ last.op = "Reconcile" /\ "d1" \in last.reverted
    /\ {"d1", "h1"} \subseteq DOMAIN last.changed
    /\ deployments["d1"].replicas = initial["d1"] /\ Unmanaged(deployments["d1"])
    /\ hpas["h1"].exists /\ UnmanagedHPA(hpas["h1"])
    /\ hpas["h1"].min = HpaInitialMin /\ hpas["h1"].max = HpaInitialMax

\* what a reversion of Deployment d in this step amounts to: spec.replicas back
\* at the annotated original, no management annotation left, and the HPA
\* that targets d back at its annotated original min/max without annotations
RevertedInStep(d) ==
    /\ Has(deployments[d].ann, OriginalReplicasAnnotation)
          => deployments'[d].replicas
               = ParseInt(deployments[d].ann[OriginalReplicasAnnotation])
    /\ Unmanaged(deployments'[d])
    /\ \A h \in HPAs :
          h = existingHPA(hpas, d) =>
             /\ Has(hpas[h].ann, OriginalMinReplicasAnnotation)
                   => hpas'[h].min = ParseInt(hpas[h].ann[OriginalMinReplicasAnnotation])
             /\ Has(hpas[h].ann, OriginalMaxReplicasAnnotation)
                   => hpas'[h].max = ParseInt(hpas[h].ann[OriginalMaxReplicasAnnotation])
             /\ UnmanagedHPA(hpas'[h])

\* the Deployments the status of ReplicasOverride o lists
AffectedBy(o) ==
    { GetDeployment(overrides[o].affected[i].Namespace, overrides[o].affected[i].Name) :
        i \in 1..Len(overrides[o].affected) } \ {NotFound}

\* C7: the reconciliation of the key of a deleted ReplicasOverride reverts the
\* Deployments its status listed, and their HPAs.
C7_DeletedOverrideReverts ==
    [][\A o \in Overrides :
         (last'.op = "Reconcile" /\ last'.key = OvKey(o) /\ ~ overrides[o].exists)
            => \A d \in AffectedBy(o) : RevertedInStep(d)]_vars

\* C8: the pass of a ReplicasOverride reverts every Deployment of its status
\* that its selector or deploymentRef no longer matches, and its HPA.
C8_CleanupReverts ==
    [][\A o \in Overrides :
         (last'.op = "Reconcile" /\ last'.key = OvKey(o) /\ overrides[o].exists)
            => \A d \in AffectedBy(o) :
                  ~ shouldProcessDeployment(d, overrides[o].spec) => RevertedInStep(d)]_vars

\* a Deployment that matches the Ignore rule: its namespace is listed, or a
\* resource entry names it, or one of the rule's labels is on it
MatchesIgnoreRule(d) ==
    /\ ignore.exists
    /\ \/ DepNamespace(d) \in ignore.spec.IgnoreNamespaces
       \/ \E res \in ignore.spec.IgnoreResources :
             /\ res.Kind = "Deployment" /\ res.Name = DepName(d)
             /\ res.Namespace \in {"", DepNamespace(d)}
       \/ \E k \in DOMAIN ignore.spec.IgnoreLabels :
             Has(DepLabels(d), k) /\ DepLabels(d)[k] = ignore.spec.IgnoreLabels[k]

\* C9: no reconciliation and no map function changes the spec or the
\* annotations of a Deployment that matches the Ignore rule, except by
\* reverting it.
C9_IgnoreMonotonicity ==
    [][last'.op \in {"Reconcile", "DeploymentEvent", "HPAEvent"} =>
         \A d \in Deployments :
            (MatchesIgnoreRule(d) /\ d \notin last'.reverted)
               => deployments'[d] = deployments[d]]_vars

\* C9 witness: the pass of a ReplicasOverride whose selection still matches an
\* ignored Deployment that it managed before has just finished without
\* processing it.
C9_Witness ==
    \E d \in Deployments, o \in Overrides :
        /\ last.op = "Reconcile" /\ last.path = "override" /\ last.key = OvKey(o)
        /\ last.result = "requeue"
        /\ overrides[o].exists /\ shouldProcessDeployment(d, overrides[o].spec)
        /\ MatchesIgnoreRule(d)
        /\ Get(deployments[d].ann, OverrideControllerAnnotation) = "true"
        /\ deployments[d].replicas # initial[d]
        /\ d \notin last.processed

\* C10: once the event of a non-ignored Deployment without HPA that no
\* ReplicasOverride matches is handled and no request is left in the queue,
\* the Deployment is scaled under the global config.
C10_GlobalScalingAfterEvent ==
    \A d \in Deployments :
        (/\ last.op = "DeploymentEvent" /\ last.key = Key(DepNamespace(d), DepName(d))
         /\ queue = {}
         /\ ~ MatchesIgnoreRule(d)
         /\ HasNoHPA(d)
         /\ ~ \E o \in Overrides :
                 overrides[o].exists /\ shouldProcessDeployment(d, overrides[o].spec))
           => /\ deployments[d].replicas
                   = targetReplicas(initial[d], config.GlobalPercentage, config)
              /\ Get(deployments[d].ann, OriginalReplicasAnnotation) = FormatInt(initial[d])
              /\ Get(deployments[d].ann, GlobalConfigManagedAnnotation) = "true"

\* C11: after a successful pass of a ReplicasOverride its status holds exactly
\* one record per processed Deployment, with the annotated original, the
\* spec.replicas after the pass and the override's percentage.
C11_StatusRecords ==
    (last.op = "Reconcile" /\ last.path = "override" /\ last.result = "requeue") =>
        LET o == GetOverride(overrides, last.key)
            affected == overrides[o].affected
        IN /\ Len(affected) = Cardinality(last.processed)
           /\ \A d \in last.processed :
                 \E i \in 1..Len(affected) :
                    affected[i] =
                       [Name |-> DepName(d), Namespace |-> DepNamespace(d),
                        OriginalReplicas |->
                            ParseInt(Get(deployments[d].ann, OriginalReplicasAnnotation)),
                        CurrentReplicas |-> deployments[d].replicas,
                        CurrentPercentage |-> overrides[o].spec.ReplicasPercentage]

\* C12: after a reconciliation that processed a Deployment with an HPA, the
\* HPA's min and max are the governing percentage of its annotated original
\* min and max, with newMin = max(1, newMin) and newMax = max(newMin, newMax).
C12_HPALimits ==
    \A d \in Deployments, h \in HPAs :
        (last.op = "Reconcile" /\ d \in last.processed /\ h = existingHPA(hpas, d)) =>
            LET p == GoverningPercentage(last)
                originalMin == ParseInt(Get(hpas[h].ann, OriginalMinReplicasAnnotation))
                originalMax == ParseInt(Get(hpas[h].ann, OriginalMaxReplicasAnnotation))
                newMin == Max(1, RoundHalfAway(originalMin, p))
                newMax == Max(newMin, RoundHalfAway(originalMax, p))
            IN hpas[h].min = newMin /\ hpas[h].max = newMax

\* exactly one of override-controller and global-config-managed is "true" and
\* the other is absent
SingleManagementMode(ann) ==
    \/ Get(ann, OverrideControllerAnnotation) = "true"
          /\ ~ Has(ann, GlobalConfigManagedAnnotation)
    \/ Get(ann, GlobalConfigManagedAnnotation) = "true"
          /\ ~ Has(ann, OverrideControllerAnnotation)

\* C15: every Deployment and every HPA that carries a management annotation
\* has exactly one of override-controller and global-config-managed.
C15_SingleManagementMode ==
    /\ \A d \in Deployments :
          ~ Unmanaged(deployments[d]) => SingleManagementMode(deployments[d].ann)
    /\ \A h \in HPAs :
          (hpas[h].exists /\ ~ UnmanagedHPA(hpas[h])) => SingleManagementMode(hpas[h].ann)

\* C18: once the request that the HPA map function makes for an HPA whose
\* Deployment is not ignored and matches no ReplicasOverride is reconciled, the
\* HPA is under global management: global-config-managed is "true", the
\* original min/max annotations hold the values it was created with, and its
\* min/max are those values under the global percentage.
C18_GlobalHPAAfterEvent ==
    \A h \in HPAs :
        LET d == GetDeployment(HpaNamespace(h), HpaTargetName(h))
        IN (/\ hpas[h].exists /\ d # NotFound
            /\ ~ MatchesIgnoreRule(d)
            /\ ~ \E o \in Overrides :
                    overrides[o].exists /\ shouldProcessDeployment(d, overrides[o].spec)
            /\ last.op = "Reconcile" /\ last.key = Key(HpaNamespace(h), hpas[h].name)
            /\ last.path = "global" /\ last.result # "error")
              => /\ Get(hpas[h].ann, GlobalConfigManagedAnnotation) = "true"
                 /\ Get(hpas[h].ann, OriginalMinReplicasAnnotation) = FormatInt(HpaInitialMin)
                 /\ Get(hpas[h].ann, OriginalMaxReplicasAnnotation) = FormatInt(HpaInitialMax)
                 /\ [min |-> hpas[h].min, max |-> hpas[h].max]
                      = targetHPALimits(HpaInitialMin, HpaInitialMax,
                                        config.GlobalPercentage, config)

\* the bounds in force for a ReplicasOverrideSpec: its own minReplicas and
\* maxReplicas where set, the GlobalConfig's otherwise
EffectiveMin(spec) == IF spec.MinReplicas # Nil THEN spec.MinReplicas[1] ELSE config.MinReplicas
EffectiveMax(spec) == IF spec.MaxReplicas # Nil THEN spec.MaxReplicas[1] ELSE config.MaxReplicas

\* C13: when the ReplicasOverride sets minReplicas and/or maxReplicas, the
\* replica count its pass writes lies within the override's bounds (each
\* falling back to the GlobalConfig's when unset).
C13_OverrideBounds ==
    \A d \in Deployments :
        (last.op = "Reconcile" /\ last.path = "override" /\ d \in last.processed
         /\ HasNoHPA(d))
           => LET spec == overrides[GetOverride(overrides, last.key)].spec
              IN (spec.MinReplicas # Nil \/ spec.MaxReplicas # Nil)
                    => /\ EffectiveMin(spec) <= deployments[d].replicas
                       /\ deployments[d].replicas <= EffectiveMax(spec)

\* the percentage applied for a ReplicasOverrideSpec: additive overrides add
\* to the global percentage, floored at 0
ComposedPercentage(spec) ==
    IF spec.OverrideType = "additive"
    THEN Max(0, config.GlobalPercentage + spec.ReplicasPercentage - 100)
    ELSE spec.ReplicasPercentage

\* C14: the pass of a ReplicasOverride (without bounds of its own) sizes a
\* Deployment with globalPercentage + replicasPercentage - 100, floored at 0,
\* when overrideType is additive, and with replicasPercentage alone when it
\* is override.
C14_AdditivePercentage ==
    \A d \in Deployments :
        (last.op = "Reconcile" /\ last.path = "override" /\ d \in last.processed
         /\ HasNoHPA(d))
           => LET spec == overrides[GetOverride(overrides, last.key)].spec
              IN (spec.MinReplicas = Nil /\ spec.MaxReplicas = Nil)
                    => deployments[d].replicas
                         = targetReplicas(initial[d], ComposedPercentage(spec), config)

\* C19: the pass of a ReplicasOverride that carries only an hpaRef leaves the
\* named HPA at replicasPercentage of its original min/max.
C19_HPARefScalesHPA ==
    \A o \in Overrides, h \in HPAs :
        (/\ last.op = "Reconcile" /\ last.key = OvKey(o) /\ last.result # "error"
         /\ overrides[o].exists /\ hpas[h].exists
         /\ overrides[o].spec.DeploymentRef = NoRef
         /\ overrides[o].spec.Selector = NoSelector
         /\ overrides[o].spec.HPARef.Name = hpas[h].name
         /\ overrides[o].spec.HPARef.Namespace \in {"", HpaNamespace(h)})
           => /\ hpas[h].min
                   = RoundHalfAway(HpaInitialMin, overrides[o].spec.ReplicasPercentage)
              /\ hpas[h].max
                   = RoundHalfAway(HpaInitialMax, overrides[o].spec.ReplicasPercentage)

\* the eligibility filter as specified: namespace first, then resource
\* entries, then labels that are present on the Deployment with the same value
EligibilityFilter(d, ig) ==
    IF DepNamespace(d) \in ig.IgnoreNamespaces
    THEN [ignored |-> TRUE, reason |-> "Namespace is in ignore list"]
    ELSE IF \E res \in ig.IgnoreResources :
               /\ res.Kind = "Deployment" /\ res.Name = DepName(d)
               /\ res.Namespace \in {"", DepNamespace(d)}
    THEN [ignored |-> TRUE, reason |-> "Deployment is in ignore list"]
    ELSE IF \E k \in DOMAIN ig.IgnoreLabels :
               k \in DOMAIN DepLabels(d) /\ DepLabels(d)[k] = ig.IgnoreLabels[k]
    THEN [ignored |-> TRUE, reason |-> "Deployment has ignored label"]
    ELSE [ignored |-> FALSE, reason |-> ""]

\* the records of the GlobalReplicasIgnore status for Deployment d
StatusRecords(d) ==
    { i \in 1..Len(ignore.status) :
        ignore.status[i].Name = DepName(d) /\ ignore.status[i].Namespace = DepNamespace(d) }

\* C16: the verdict and reason that ShouldIgnoreDeployment gives for each
\* Deployment, as the ignore controller records them, are those of the
\* eligibility filter: namespace, then resource entry, then a label present on
\* the Deployment with the same value; an absent label key never matches.
C16_EligibilityFilter ==
    last.op = "IgnoreReconcile" =>
        \A d \in Deployments :
            LET expected == EligibilityFilter(d, ignore.spec)
            IN /\ (StatusRecords(d) # {}) = expected.ignored
               /\ \A i \in StatusRecords(d) : ignore.status[i].Reason = expected.reason

C20_ConfigSnapshot ==
    [][/\ (last.op = "none" => config = DefaultConfig)
       /\ ((last'.op = "LoadConfig" /\ last'.result = "error") => config' = config)
       /\ (config' # config =>
              /\ last'.op = "LoadConfig" /\ last'.result = "done"
              /\ last'.key.kind = "yaml"
              /\ config' = Unmarshal(last'.key.fields))
       /\ DOMAIN config' = {"GlobalPercentage", "MinReplicas", "MaxReplicas"}]_vars

\* C20 witness: a load has just failed on text that is no YAML while a config
\* other than the default, loaded earlier, stays published.
C20_Witness ==
    /\ last.op = "LoadConfig" /\ last.result = "error" /\ last.key = NotYAML
    /\ config # DefaultConfig
    /\ config.GlobalPercentage = 150

\* C21: after a reconciliation that processed a Deployment and wrote its HPA,
\* hpa-original-min and hpa-original-max are the HPA's initial min and max;
\* and an HPA that carries the two annotations before and after a step
\* carries the same values, also when its min/max have been scaled.
C21_HPAOriginalsWrittenOnce ==
    [][\A h \in HPAs :
         /\ (/\ last'.op = "Reconcile" /\ h \in last'.written
             /\ \E d \in last'.processed : h = existingHPA(hpas', d))
               => /\ Get(hpas'[h].ann, OriginalMinReplicasAnnotation) = FormatInt(HpaInitialMin)
                  /\ Get(hpas'[h].ann, OriginalMaxReplicasAnnotation) = FormatInt(HpaInitialMax)
         /\ \A a \in {OriginalMinReplicasAnnotation, OriginalMaxReplicasAnnotation} :
               (hpas[h].exists /\ hpas'[h].exists /\ Has(hpas[h].ann, a) /\ Has(hpas'[h].ann, a))
                  => hpas'[h].ann[a] = hpas[h].ann[a]]_vars

\* C21 witness: an HPA whose min/max an earlier pass moved away from the
\* initial values has just been processed again under another percentage
\* and still carries the initial min and max as its originals.
C21_Witness ==
    \E h \in HPAs, d \in Deployments :
        /\ last.op = "Reconcile" /\ d \in last.processed /\ h \in last.written
        /\ h = existingHPA(hpas, d)
        /\ h \in DOMAIN last.changed
        /\ last.path = "global"
        /\ Get(hpas[h].ann, OverrideControllerAnnotation) = "true"
        /\ last.changed[h][1] # HpaInitialMin /\ hpas[h].min # HpaInitialMin
        /\ Get(hpas[h].ann, OriginalMinReplicasAnnotation) = FormatInt(HpaInitialMin)
        /\ Get(hpas[h].ann, OriginalMaxReplicasAnnotation) = FormatInt(HpaInitialMax)

\* C22: a step of Reconcile or of a map function leaves of every Deployment
\* everything but spec.replicas and the kubedynamicscaler.io annotations as
\* it was, and of every HPA everything but minReplicas, maxReplicas and the
\* kubedynamicscaler.io annotations; it creates and deletes no Deployment and
\* no HPA.
C22_Frame ==
    [][LET EngineAnnotations == DeploymentAnnotations \cup HPAAnnotations
           OwnersAnnotations(ann) == [k \in DOMAIN ann \ EngineAnnotations |-> ann[k]]
       IN last'.op \in {"Reconcile", "DeploymentEvent", "HPAEvent"} =>
            /\ DOMAIN deployments' = DOMAIN deployments
            /\ \A d \in Deployments :
                  /\ DOMAIN deployments'[d] = {"replicas", "ann"}
                  /\ OwnersAnnotations(deployments'[d].ann)
                       = OwnersAnnotations(deployments[d].ann)
            /\ \A h \in HPAs :
                  /\ hpas'[h].exists = hpas[h].exists
                  /\ hpas'[h].name = hpas[h].name
                  /\ DOMAIN hpas'[h] = DOMAIN hpas[h]
                  /\ OwnersAnnotations(hpas'[h].ann) = OwnersAnnotations(hpas[h].ann)]_vars

\* C22 witness: a pass has just reverted a Deployment and its HPA, removing
\* its own annotations from both, and the owner's annotations are on both.
C22_Witness ==
    \E d \in Deployments, h \in HPAs :
        /\ last.op = "Reconcile" /\ d \in last.reverted /\ {d, h} \subseteq last.written
        /\ h = existingHPA(hpas, d) /\ h \in DOMAIN last.changed
        /\ Unmanaged(deployments[d]) /\ UnmanagedHPA(hpas[h])
        /\ deployments[d].ann = UserAnnotations
        /\ hpas[h].ann = UserAnnotations

\* C23: when both ReplicasOverrides match a Deployment without an HPA, a pass
\* that has just processed the Deployment leaves it at the target of the
\* ReplicasOverride whose (namespace, name) is the smaller one, which here is
\* a/ov2 before a/web, whichever of the two the pass was run for.
C23_SmallestOverrideApplies ==
    \A d \in Deployments :
        (/\ last.op = "Reconcile" /\ last.path = "override" /\ d \in last.processed
         /\ HasNoHPA(d)
         /\ \A o \in Overrides :
               overrides[o].exists /\ shouldProcessDeployment(d, overrides[o].spec))
           => deployments[d].replicas
                = targetReplicas(initial[d], Percentage(overrides["o2"].spec, config), config)

\* C24: a step that changes the global configuration puts one request into
\* the queue for every Deployment that is not ignored and is marked as
\* managed by the global configuration, keyed by the Deployment's namespace
\* and name, so that the Deployment is resized to the new percentage.
C24_ConfigChangeEnqueues ==
    [][config' # config =>
         \A d \in Deployments :
            (/\ ~ IsIgnored(ignore, d)
             /\ Get(deployments[d].ann, GlobalConfigManagedAnnotation) = "true")
               => Key(DepNamespace(d), DepName(d)) \in queue']_vars

\* C26: a reconciliation that returned without an error has asked for its
\* key to be queued again after five minutes, also when the deploymentRef of
\* its ReplicasOverride names no Deployment and when it took the global path
\* for an ignored Deployment.
C26_SuccessRequeues ==
    (last.op = "Reconcile" /\ last.result # "error")
       => last.result = "requeue" /\ last.key \in queue

\* C27: a reconciliation that finds a Deployment it manages already at the
\* target issues no update of that Deployment, and one that finds the
\* minReplicas and maxReplicas of a managed HPA already at the target issues
\* no update of the HPA.
C27_NoWriteWhenEqual ==
    [][last'.op = "Reconcile" =>
         \A d \in last'.processed \ last'.reverted :
            /\ (/\ HasNoHPA(d)
                /\ Has(deployments[d].ann, LastUpdateAnnotation)
                /\ deployments'[d].replicas = deployments[d].replicas)
                  => d \notin last'.written
            /\ \A h \in HPAs :
                  (/\ h = existingHPA(hpas, d)
                   /\ Has(hpas[h].ann, LastHPAUpdateAnnotation)
                   /\ hpas'[h].min = hpas[h].min /\ hpas'[h].max = hpas[h].max)
                     => h \notin last'.written]_vars

\* C28: the handling of a Deployment's change event adds to the queue one
\* request per existing ReplicasOverride that matches the Deployment, or, when
\* none matches, one request keyed by the Deployment's own namespace and
\* name; for an ignored Deployment it adds nothing; and it writes nothing to
\* any Deployment.
C28_DeploymentMapper ==
    [][last'.op = "DeploymentEvent" =>
         \E d \in Deployments :
            LET matching == { o \in Overrides :
                                overrides[o].exists
                                /\ shouldProcessDeployment(d, overrides[o].spec) }
            IN /\ last'.key = Key(DepNamespace(d), DepName(d))
               /\ deployments' = deployments
               /\ queue' = queue \cup
                     (IF IsIgnored(ignore, d) THEN {}
                      ELSE IF matching # {} THEN { OvKey(o) : o \in matching }
                      ELSE {Key(DepNamespace(d), DepName(d))})]_vars

\* C30: a reconciliation that finds on a Deployment an original-replicas
\* annotation that is no decimal number, or on an HPA such an
\* hpa-original-min or hpa-original-max, leaves spec.replicas (minReplicas
\* and maxReplicas) and the annotation as they are, in a scaling pass and in
\* a reversion alike.
C30_MalformedOriginalSkipped ==
    [][LET Malformed(ann, a) == Has(ann, a) /\ ~ \E n \in 0..MaxInt : Decimals[n] = ann[a]
       IN last'.op = "Reconcile" =>
            /\ \A d \in Deployments :
                  Malformed(deployments[d].ann, OriginalReplicasAnnotation)
                     => /\ deployments'[d].replicas = deployments[d].replicas
                        /\ Get(deployments'[d].ann, OriginalReplicasAnnotation)
                             = deployments[d].ann[OriginalReplicasAnnotation]
            /\ \A h \in HPAs :
                  (\E a \in {OriginalMinReplicasAnnotation, OriginalMaxReplicasAnnotation} :
                      Malformed(hpas[h].ann, a))
                     => /\ hpas'[h].min = hpas[h].min /\ hpas'[h].max = hpas[h].max
                        /\ \A a \in {OriginalMinReplicasAnnotation, OriginalMaxReplicasAnnotation} :
                              Get(hpas'[h].ann, a) = Get(hpas[h].ann, a)]_vars

\* C29: after a pass in which a call made for one Deployment failed, every
\* other Deployment that the ReplicasOverride matches and no rule ignores has
\* been updated by the pass, and the status of the ReplicasOverride has been
\* written with a record for each of them.
C29_ErrorSkipsOneDeployment ==
    (last.op = "Reconcile" /\ last.fault.call \in {"ListIgnores", "ListHPAs", "GetUpdated"}) =>
        LET o == GetOverride(overrides, last.key)
            spec == overrides[o].spec
            items == ListedDeployments(o, spec)
            due == { d \in Deployments \ {last.fault.at} :
                       /\ \E i \in 1..Len(items) : items[i] = d
                       /\ shouldProcessDeployment(d, spec)
                       /\ ~ IsIgnored(ignore, d) }
        IN /\ due \subseteq last.written
           /\ o \in last.written
           /\ \A d \in due :
                 \E i \in 1..Len(overrides[o].affected) :
                    /\ overrides[o].affected[i].Name = DepName(d)
                    /\ overrides[o].affected[i].Namespace = DepNamespace(d)

\* C25: a pass in which the Updates of one object were answered with
\* conflicts has re-fetched and re-applied the write until it succeeded or
\* three attempts were made, and after three failed attempts it has returned
\* the error; the same for the write of spec.replicas, of the HPA's
\* minReplicas and maxReplicas, of the annotations alone and of the status.
C25_BoundedRetry ==
    (last.op = "Reconcile" /\ last.fault.call = "Conflict" /\ last.attempts > 0) =>
        /\ last.attempts = (IF last.fault.n < 3 THEN last.fault.n + 1 ELSE 3)
        /\ last.fault.n < 3 => last.fault.at \in last.written
        /\ last.fault.n >= 3 => last.result = "error"

\* C31: a reconciliation that processes a managed Deployment sets its
\* management-mode to "hpa" when an HPA targets it and to "direct" when none
\* does, and when that changes the mode (direct to hpa, hpa to direct) the
\* Deployment carries the same original-replicas after the step as before.
C31_ModeTransitionKeepsOriginal ==
    [][\A d \in Deployments :
         (last'.op = "Reconcile" /\ d \in last'.processed) =>
            LET before == Get(deployments[d].ann, ManagementModeAnnotation)
                after == Get(deployments'[d].ann, ManagementModeAnnotation)
            IN /\ after = (IF existingHPA(hpas', d) = NotFound THEN "direct" ELSE "hpa")
               /\ (before \in {"hpa", "direct"} /\ before # after)
                     => /\ Has(deployments[d].ann, OriginalReplicasAnnotation)
                        /\ Get(deployments'[d].ann, OriginalReplicasAnnotation)
                             = Get(deployments[d].ann, OriginalReplicasAnnotation)]_vars

\* C32: when a reconciliation processes a Deployment that carried none of
\* the engine's annotations and that an HPA, itself not yet managed, targets,
\* the Deployment carries afterwards an original-replicas annotation equal
\* to the minReplicas the HPA had before the step.
C32_OriginalFromHPAMin ==
    [][\A d \in Deployments, h \in HPAs :
         (/\ last'.op = "Reconcile" /\ d \in last'.processed
          /\ h = existingHPA(hpas, d)
          /\ Unmanaged(deployments[d]) /\ UnmanagedHPA(hpas[h]))
            => Get(deployments'[d].ann, OriginalReplicasAnnotation) = FormatInt(hpas[h].min)]_vars

\* C33: from some point on no step changes the spec.replicas of any
\* Deployment or the minReplicas or maxReplicas of any HPA.
C33_Converges ==
    <>[][/\ \A d \in Deployments : deployments'[d].replicas = deployments[d].replicas
         /\ \A h \in HPAs : hpas'[h].min = hpas[h].min /\ hpas'[h].max = hpas[h].max]_vars

\* C34: after a pass of a ReplicasOverride that wrote its status, every
\* Deployment that was listed in status.affectedDeployments before the pass,
\* was not reverted by it and still carries the engine's annotations is
\* still listed, so that a later pass can revert it.
C34_TrackingComplete ==
    [][LET Listed(affected, d) ==
               \E i \in 1..Len(affected) :
                  affected[i].Name = DepName(d) /\ affected[i].Namespace = DepNamespace(d)
       IN \A o \in Overrides, d \in Deployments :
             (/\ last'.op = "Reconcile" /\ last'.path = "override"
              /\ overrides[o].exists /\ last'.key = OvKey(o) /\ o \in last'.written
              /\ Listed(overrides[o].affected, d)
              /\ d \notin last'.reverted
              /\ ~ Unmanaged(deployments'[d]))
                => Listed(overrides'[o].affected, d)]_vars

\* C35: in every state a Deployment that carries override-controller = "true"
\* or global-config-managed = "true" carries original-replicas and
\* management-mode as well, and an HPA that carries hpa-managed = "true"
\* carries hpa-original-min and hpa-original-max.
C35_AnnotationCoherence ==
    /\ \A d \in Deployments :
          (\/ Get(deployments[d].ann, OverrideControllerAnnotation) = "true"
           \/ Get(deployments[d].ann, GlobalConfigManagedAnnotation) = "true")
             => /\ Has(deployments[d].ann, OriginalReplicasAnnotation)
                /\ Has(deployments[d].ann, ManagementModeAnnotation)
    /\ \A h \in HPAs :
          (hpas[h].exists /\ Get(hpas[h].ann, HPAManagedAnnotation) = "true")
             => /\ Has(hpas[h].ann, OriginalMinReplicasAnnotation)
                /\ Has(hpas[h].ann, OriginalMaxReplicasAnnotation)

\* C36: when a reconciliation has reached processHPA for the HPA of a
\* Deployment (the Deployment's management-mode has just been written), for
\* any percentage from 0 to 1000, original min 2 and max 10 and any
\* configuration with 1 <= minReplicas <= maxReplicas, the HPA has been written
\* and its limits satisfy 1 <= minReplicas <= maxReplicas.
C36_HPALimitsValid ==
    \A d \in Deployments, h \in HPAs :
        (/\ last.op = "Reconcile" /\ d \in last.written
         /\ h = existingHPA(hpas, d)
         /\ 1 <= config.MinReplicas /\ config.MinReplicas <= config.MaxReplicas)
           => /\ h \in last.written
              /\ 1 <= hpas[h].min
              /\ hpas[h].min <= hpas[h].max

\* C37: after a change event of a Deployment, and after a change event of
\* the HPA that targets it, the requests of the map function name an existing
\* ReplicasOverride exactly when a reconciliation of that ReplicasOverride
\* would process the Deployment.
C37_MappersAgree ==
    \A o \in Overrides, d \in Deployments :
        overrides[o].exists =>
            LET processes ==
                    d \in ReconcileOverride(o, deployments, hpas, overrides,
                                            ignore, config).processed
            IN /\ (last.op = "DeploymentEvent"
                   /\ last.key = Key(DepNamespace(d), DepName(d)))
                     => (OvKey(o) \in DeploymentRequests(d, overrides, ignore) <=> processes)
               /\ \A h \in HPAs :
                     (/\ last.op = "HPAEvent" /\ hpas[h].exists
                      /\ h = existingHPA(hpas, d)
                      /\ last.key = Key(HpaNamespace(h), hpas[h].name))
                        => (OvKey(o) \in findReplicasOverridesForHPA(h, hpas, overrides, ignore)
                              <=> processes)

C39_SweepAgreesWithFilter ==
    last.op = "IgnoreReconcile" =>
        \A d \in Deployments :
            (\/ DepNamespace(d) \in ignoredNamespaces(ignore.spec)
             \/ Key(DepNamespace(d), DepName(d)) \in ignoredDeployments(ignore.spec))
              <=> ShouldIgnoreDeployment(d, ignore.spec).ignored

====
